---- MODULE Spec2Model ----
(***************************************************************************)
(* KermHost: coin ledger, deployment-account allocator and deployment      *)
(* lifecycle.  The store (users, bots, heroku_accounts, deployments,       *)
(* coin_transactions) is the state; every route handler is one action and  *)
(* the detached provisioning task deployToHeroku advances one external     *)
(* call at a time.                                                         *)
(***************************************************************************)
EXTENDS Integers, Sequences, FiniteSets, TLC

(* ------------------------------ bounds ------------------------------- *)
MaxUsers == 3
NumAccounts == 2
MaxCap == 2
MaxUsed == 3
MaxDeps == 2
MaxReqs == 2
MaxLedger == 3
MaxTime == 30
TickHours == 12

(* ------------------------- program constants ------------------------- *)
WelcomeCoins == 10
ReferredCoins == 20
ReferralReward == 10
DailyReward == 10
CooldownHours == 24
DefaultMaxDeployments == 5
DefaultEnvCost == 10

NULL == 0
Admin == 1
UserIds == 1..MaxUsers
AccountIds == 1..NumAccounts
DepIds == 1..MaxDeps
ReqIds == 1..MaxReqs
BotIds == {1, 2, 3}
Costs == {5, 10}
Amounts == {0, 5}

VARIABLES
    nextUser,   \* next free users.id; ids below it are rows of users
    verified,   \* users.is_verified
    referredBy, \* users.referred_by
    coins,      \* users.coins, the denormalized balance
    ledger,     \* coin_transactions, in insertion order
    now,        \* wall clock, in hours
    bots,       \* bots table: cost, is_approved, kerm_json.env
    accounts,   \* heroku_accounts: is_active, used_count, max_deployments
    nextDep,    \* next free deployments.id
    deps,       \* deployments rows (NoRow once deleted or before insert)
    task,       \* the detached deployToHeroku continuation of each deployment
    allocated,  \* the account the allocator returned last (NULL: none, or it threw)
    reqs,       \* POST /deploy requests suspended at an await, with what they have read
    pending     \* coin requests that passed their checks: the entry each is about to insert

vars == <<nextUser, verified, referredBy, coins, ledger, now, bots, accounts,
          nextDep, deps, task, allocated, reqs, pending>>

userVars == <<nextUser, verified, referredBy>>
depVars == <<nextDep, deps, task, allocated, reqs, pending>>

NoRow == [user |-> NULL, bot |-> NULL, acct |-> NULL, status |-> "none", cost |-> 0,
          env |-> "null", logs |-> <<>>]
NoTask == [pc |-> "none", bot |-> NULL, acct |-> NULL]
NoPending == [sender |-> NULL, receiver |-> NULL, amount |-> 0]
NoReq == [pc |-> "none", user |-> NULL, bot |-> NULL, cost |-> 0, acct |-> NULL,
          coins |-> 0, dep |-> NULL, used |-> 0]

Exists(u) == u \in UserIds /\ u < nextUser

Max2(a, b) == IF a >= b THEN a ELSE b

(* JavaScript `x || d` on a number: 0 (like null) is falsy. *)
OrDefault(x, d) == IF x = 0 THEN d ELSE x

(* ------------------------------ ledger ------------------------------- *)
Entry(sender, receiver, amount, type) ==
    [sender |-> sender, receiver |-> receiver, amount |-> amount,
     type |-> type, at |-> now]

RECURSIVE SumWhere(_, _, _)
SumWhere(led, u, side) ==
    IF led = <<>> THEN 0
    ELSE LET e == Head(led)
             hit == IF side = "receiver" THEN e.receiver = u ELSE e.sender = u
         IN (IF hit THEN e.amount ELSE 0) + SumWhere(Tail(led), u, side)

LedgerBalance(u) == SumWhere(ledger, u, "receiver") - SumWhere(ledger, u, "sender")

(* rpc increment_coins(user_id, amount): coins := coins + amount *)
IncrementCoins(c, u, amount) == [c EXCEPT ![u] = @ + amount]

(* ------------------------- account allocator ------------------------- *)
(* A selection without .eq('is_active', true). *)
EveryAccountId(accs) == AccountIds

(* .eq('is_active', true) *)
ActiveIds(accs) == {a \in AccountIds : accs[a].active}

(* The store's answer to .eq('is_active', true).order('used_count'): any *)
(* arrangement of the active accounts with used_count ascending; the     *)
(* order among equal used_count is the store's choice.                   *)
Orderings(accs) ==
    LET ids == ActiveIds(accs)
        n == Cardinality(ids)
    IN {s \in [1..n -> ids] :
            /\ \A i, j \in 1..n : i # j => s[i] # s[j]
            /\ \A i, j \in 1..n : i < j => accs[s[i]].used <= accs[s[j]].used}

HasCapacity(acc) == OrDefault(acc.used, 0) < OrDefault(acc.max, DefaultMaxDeployments)

SpareCapacity(acc) == OrDefault(acc.max, 0) - OrDefault(acc.used, 0)

(* accounts.sort((a, b) => capacityB - capacityA)[0]: the sort is stable, *)
(* so the first account of the ordering with the largest spare capacity.  *)
FirstByCapacity(accs, ord) ==
    LET best == CHOOSE i \in 1..Len(ord) :
                   /\ \A j \in 1..Len(ord) :
                        SpareCapacity(accs[ord[j]]) <= SpareCapacity(accs[ord[i]])
                   /\ \A j \in 1..(i - 1) :
                        SpareCapacity(accs[ord[j]]) < SpareCapacity(accs[ord[i]])
    IN ord[best]

(* getAvailableHerokuAccount over the rows `ord`; NULL stands for the    *)
(* thrown 'Aucun compte Heroku disponible'.                              *)
GetAvailableHerokuAccount(accs, ord) ==
    IF Len(ord) = 0 THEN NULL
    ELSE IF \E i \in 1..Len(ord) : HasCapacity(accs[ord[i]])
         THEN ord[CHOOSE i \in 1..Len(ord) :
                    /\ HasCapacity(accs[ord[i]])
                    /\ \A j \in 1..(i - 1) : ~HasCapacity(accs[ord[j]])]
         ELSE FirstByCapacity(accs, ord)

(* updateHerokuUsage(accountId, increment) *)
UpdateHerokuUsage(accs, a, increment) ==
    IF a \notin AccountIds THEN accs
    ELSE [accs EXCEPT ![a].used =
            IF increment THEN OrDefault(@, 0) + 1
            ELSE Max2(0, OrDefault(@, 0) - 1)]

(* ------------------------------- Init -------------------------------- *)
(* The pool after add-heroku-account has inserted every account with   *)
(* max_deployments m (1..100); a new account is active with used_count 0. *)
Pool(m) == [a \in AccountIds |-> [active |-> TRUE, used |-> 0, max |-> m]]

Catalogue ==
    [b \in BotIds |->
        IF b = 1 THEN [cost |-> 10, approved |-> TRUE, defaults |-> TRUE, required |-> TRUE]
        ELSE IF b = 2 THEN [cost |-> 5, approved |-> TRUE, defaults |-> FALSE, required |-> FALSE]
        ELSE [cost |-> 5, approved |-> FALSE, defaults |-> FALSE, required |-> FALSE]]

(* An empty database seeded with the administrator, the bot catalogue    *)
(* and the account pool.                                                 *)
Init ==
    /\ nextUser = Admin + 1
    /\ verified = [u \in UserIds |-> u = Admin]
    /\ referredBy = [u \in UserIds |-> NULL]
    /\ coins = [u \in UserIds |-> 0]
    /\ ledger = <<>>
    /\ now = 0
    /\ bots = Catalogue
    /\ accounts = Pool(MaxCap)
    /\ nextDep = 1
    /\ deps = [d \in DepIds |-> NoRow]
    /\ task = [d \in DepIds |-> NoTask]
    /\ allocated = NULL
    /\ reqs = [r \in ReqIds |-> NoReq]
    /\ pending = [q \in ReqIds |-> NoPending]

(* authMiddleware: the caller is a row of users and is verified. *)
Authenticated(u) == Exists(u) /\ verified[u]

(* --------------------------- auth routes ----------------------------- *)
(* POST /signup with a fresh email; `ref` is the user whose referral_code *)
(* the body carries (NULL: no code, or a code nobody owns).  The          *)
(* existingReferral lookup asks for a referrals row whose referred_id is  *)
(* the referrer itself; no handler inserts such a row, so it finds none.  *)
Signup(ref) ==
    /\ nextUser <= MaxUsers
    /\ ref = NULL \/ Exists(ref)
    /\ LET u == nextUser
       IN /\ nextUser' = nextUser + 1
          /\ verified' = [verified EXCEPT ![u] = FALSE]
          /\ referredBy' = [referredBy EXCEPT ![u] = ref]
          /\ IF ref = NULL
             THEN /\ coins' = [coins EXCEPT ![u] = WelcomeCoins]
                  /\ ledger' = ledger
             ELSE /\ coins' = [coins EXCEPT ![u] = ReferredCoins,
                                            ![ref] = OrDefault(@, 0) + ReferralReward]
                  /\ ledger' = ledger \o
                        << Entry(NULL, ref, ReferralReward, "referral"),
                           Entry(NULL, u, ReferralReward, "referral_bonus") >>
    /\ UNCHANGED <<now, bots, accounts, depVars>>

(* POST /signup with an email already in users: 400, nothing written. *)
SignupDuplicate(u) ==
    /\ Exists(u)
    /\ UNCHANGED vars

(* POST /verify with the right, unexpired code. *)
Verify(u) ==
    /\ Exists(u)
    /\ ~verified[u]
    /\ verified' = [verified EXCEPT ![u] = TRUE]
    /\ UNCHANGED <<nextUser, referredBy, coins, ledger, now, bots, accounts, depVars>>

(* --------------------------- coin routes ----------------------------- *)
DailyEntries(u) ==
    {i \in 1..Len(ledger) : ledger[i].receiver = u /\ ledger[i].type = "daily"}

(* .order('created_at', desc).limit(1).single(): created_at of the most *)
(* recent daily entry of u; only read when DailyEntries(u) is not empty. *)
LastClaimAt(u) ==
    LET S == DailyEntries(u)
    IN ledger[CHOOSE i \in S : \A j \in S : ledger[j].at <= ledger[i].at].at

(* A cooldown that still rejects at exactly 24 hours. *)
InCooldownInclusive(last, t) == t - last <= CooldownHours

(* hoursSinceLastClaim < 24 rejects *)
InCooldown(last, t) == t - last < CooldownHours

ClaimRejected(u) == DailyEntries(u) # {} /\ InCooldown(LastClaimAt(u), now)

(* POST /claim-daily *)
ClaimDaily(u) ==
    /\ Authenticated(u)
    /\ Len(ledger) < MaxLedger
    /\ IF ClaimRejected(u)
       THEN UNCHANGED <<coins, ledger>>
       ELSE /\ ledger' = Append(ledger, Entry(NULL, u, DailyReward, "daily"))
            /\ coins' = IncrementCoins(coins, u, DailyReward)
    /\ UNCHANGED <<userVars, now, bots, accounts, depVars>>

(* A send that does not look at the receiver's is_verified. *)
SendCodeAnyReceiver(s, r, amount) ==
    IF amount <= 0 THEN 400
    ELSE IF amount > OrDefault(coins[s], 0) THEN 400
    ELSE IF r = s THEN 400
    ELSE IF ~Exists(r) THEN 404
    ELSE 200

(* The answer of POST /send before anything is written: 200 when every  *)
(* validation passes.  The receiver's email is its id.                   *)
SendCode(s, r, amount) ==
    IF amount <= 0 THEN 400
    ELSE IF amount > OrDefault(coins[s], 0) THEN 400
    ELSE IF r = s THEN 400
    ELSE IF ~Exists(r) THEN 404
    ELSE IF ~verified[r] THEN 400
    ELSE 200

(* A send that credits the receiver without debiting the sender. *)
TransferCreditOnly(c, s, r, amount) == IncrementCoins(c, r, amount)

(* The two increment_coins calls of POST /send. *)
Transfer(c, s, r, amount) == IncrementCoins(IncrementCoins(c, s, -amount), r, amount)

(* POST /send *)
Send(s, r, amount) ==
    /\ Authenticated(s)
    /\ Len(ledger) < MaxLedger
    /\ IF SendCode(s, r, amount) = 200
       THEN /\ ledger' = Append(ledger, Entry(s, r, amount, "transfer"))
            /\ coins' = Transfer(coins, s, r, amount)
       ELSE UNCHANGED <<coins, ledger>>
    /\ UNCHANGED <<userVars, now, bots, accounts, depVars>>

(* ---- POST /send, suspended between its checks and its writes ---- *)
(* The balance check reads req.user.coins, loaded by authMiddleware;   *)
(* the handler then awaits the receiver lookup, and other requests run *)
(* before it writes.  A new request takes the first free slot.         *)
SendValidate(q, s, r, amount) ==
    /\ pending[q] = NoPending
    /\ \A p \in 1..(q - 1) : pending[p] # NoPending
    /\ Authenticated(s)
    /\ pending' = IF SendCode(s, r, amount) = 200
                THEN [pending EXCEPT ![q] = [sender |-> s, receiver |-> r, amount |-> amount]]
                ELSE pending
    /\ UNCHANGED <<userVars, coins, ledger, now, bots, accounts, nextDep, deps, task,
                   allocated, reqs>>

(* coin_transactions.insert and the two increment_coins calls. *)
SendWrite(q) ==
    /\ pending[q].sender # NULL
    /\ Len(ledger) < MaxLedger
    /\ ledger' = Append(ledger, Entry(pending[q].sender, pending[q].receiver,
                                      pending[q].amount, "transfer"))
    /\ coins' = Transfer(coins, pending[q].sender, pending[q].receiver, pending[q].amount)
    /\ pending' = [pending EXCEPT ![q] = NoPending]
    /\ UNCHANGED <<userVars, now, bots, accounts, nextDep, deps, task, allocated, reqs>>

(* ---- POST /claim-daily, suspended between its check and its writes ---- *)
(* The handler awaits the select of the last claim, then the insert.   *)
ClaimCheck(q, u) ==
    /\ pending[q] = NoPending
    /\ \A p \in 1..(q - 1) : pending[p] # NoPending
    /\ Authenticated(u)
    /\ pending' = IF ClaimRejected(u) THEN pending
                  ELSE [pending EXCEPT ![q] =
                          [sender |-> NULL, receiver |-> u, amount |-> DailyReward]]
    /\ UNCHANGED <<userVars, coins, ledger, now, bots, accounts, nextDep, deps, task,
                   allocated, reqs>>

(* coin_transactions.insert and increment_coins. *)
ClaimWrite(q) ==
    /\ pending[q] # NoPending
    /\ pending[q].sender = NULL
    /\ Len(ledger) < MaxLedger
    /\ ledger' = Append(ledger, Entry(NULL, pending[q].receiver, pending[q].amount, "daily"))
    /\ coins' = IncrementCoins(coins, pending[q].receiver, pending[q].amount)
    /\ pending' = [pending EXCEPT ![q] = NoPending]
    /\ UNCHANGED <<userVars, now, bots, accounts, nextDep, deps, task, allocated, reqs>>

(* POST /users/:id/add-coins (admin) *)
AdminAddCoins(u, amount) ==
    /\ Len(ledger) < MaxLedger
    /\ IF amount > 0 /\ Exists(u)
       THEN /\ ledger' = Append(ledger, Entry(Admin, u, amount, "admin"))
            /\ coins' = IncrementCoins(coins, u, amount)
       ELSE UNCHANGED <<coins, ledger>>
    /\ UNCHANGED <<userVars, now, bots, accounts, depVars>>

(* Time passes. *)
Tick ==
    /\ now + TickHours <= MaxTime
    /\ now' = now + TickHours
    /\ UNCHANGED <<userVars, coins, ledger, bots, accounts, depVars>>

(* -------------------------- deploy routes ---------------------------- *)
(* A deploy that loads the bot without .eq('is_approved', true). *)
DeployCodeAnyBot(u, b, cost, a) ==
    IF coins[u] < cost THEN 400
    ELSE IF b \notin BotIds THEN 404
    ELSE IF a = NULL THEN 500
    ELSE IF ~HasCapacity(accounts[a]) THEN 503
    ELSE 200

(* The answer of POST /deploy before anything is written.  `cost` is the *)
(* cost the request body carries, `a` the allocator's account.           *)
DeployCode(u, b, cost, a) ==
    IF coins[u] < cost THEN 400
    ELSE IF b \notin BotIds \/ ~bots[b].approved THEN 404
    ELSE IF a = NULL THEN 500
    ELSE IF ~HasCapacity(accounts[a]) THEN 503
    ELSE 200

(* A deployment that costs nothing. *)
DebitNone(c, u, cost) == c

(* The debit of POST /deploy and PUT /update-env:                       *)
(* users.coins := req.user.coins - cost                                 *)
Debit(c, u, cost) == [c EXCEPT ![u] = c[u] - cost]

(* deployments.update({logs: text}).eq('id', d): the column takes the  *)
(* new text; a text is the sequence of its messages.                   *)
SetLogs(rows, d, text) ==
    IF rows[d] = NoRow THEN rows ELSE [rows EXCEPT ![d].logs = <<text>>]

(* env_variables of the inserted row: bot.kerm_json?.env ? {} : null *)
InsertedEnv(bot) == IF bot.defaults \/ bot.required THEN "empty" ELSE "null"

(* POST /deploy, up to the answer; the provisioning task is left at its *)
(* first external call, after its first update of the logs.             *)
CreateDeployment(u, b, cost, ord) ==
    /\ Authenticated(u)
    /\ LET a == GetAvailableHerokuAccount(accounts, ord)
           d == nextDep
       IN IF DeployCode(u, b, cost, a) = 200
          THEN /\ nextDep <= MaxDeps
               /\ deps' = SetLogs([deps EXCEPT ![d] =
                              [user |-> u, bot |-> b, acct |-> a, status |-> "pending",
                               cost |-> cost, env |-> InsertedEnv(bots[b]),
                               logs |-> <<"starting">>]],
                           d, "creating app")
               /\ nextDep' = nextDep + 1
               /\ coins' = Debit(coins, u, cost)
               /\ accounts' = UpdateHerokuUsage(accounts, a, TRUE)
               /\ ledger' = Append(ledger, Entry(u, NULL, cost, "deployment"))
               /\ task' = [task EXCEPT ![d] = [pc |-> "createApp", bot |-> b, acct |-> a]]
          ELSE UNCHANGED <<coins, ledger, accounts, nextDep, deps, task>>
    /\ UNCHANGED <<userVars, now, bots, allocated, reqs, pending>>

(* ---- POST /deploy, one await at a time ---- *)
(* The handler is suspended at every await; another request can run in *)
(* between.  A request keeps what it has read: the user's balance      *)
(* (req.user, loaded by authMiddleware), the account it selected and   *)
(* the used_count updateHerokuUsage selected.                          *)

(* POST /deploy up to the capacity check: validations and selection.   *)
(* A new request takes the first free slot (slots are only names).     *)
ReqSelect(r, u, b, cost, ord) ==
    /\ reqs[r] = NoReq
    /\ \A q \in 1..(r - 1) : reqs[q] # NoReq
    /\ Authenticated(u)
    /\ LET a == GetAvailableHerokuAccount(accounts, ord)
       IN reqs' = IF DeployCode(u, b, cost, a) = 200
                  THEN [reqs EXCEPT ![r] =
                          [pc |-> "insert", user |-> u, bot |-> b, cost |-> cost,
                           acct |-> a, coins |-> coins[u], dep |-> NULL, used |-> 0]]
                  ELSE reqs
    /\ UNCHANGED <<userVars, coins, ledger, now, bots, accounts, nextDep, deps, task,
                   allocated, pending>>

(* A handler that does not look at deployError. *)
AfterInsertIgnoringError(insertOk) == "debit"

(* if (deployError) throw deployError: the handler goes on to the debit *)
(* when the insert returned a row and ends in its catch block (500)     *)
(* when it returned an error.                                           *)
AfterInsert(insertOk) == IF insertOk THEN "debit" ELSE "none"

(* deployments.insert: the row is bound to the account selected before; *)
(* insertOk: the store returns the row, not an error.                   *)
ReqInsert(r, insertOk) ==
    /\ reqs[r].pc = "insert"
    /\ nextDep <= MaxDeps
    /\ IF insertOk
       THEN /\ deps' = [deps EXCEPT ![nextDep] =
                  [user |-> reqs[r].user, bot |-> reqs[r].bot, acct |-> reqs[r].acct,
                   status |-> "pending", cost |-> reqs[r].cost,
                   env |-> InsertedEnv(bots[reqs[r].bot]), logs |-> <<"starting">>]]
            /\ nextDep' = nextDep + 1
       ELSE UNCHANGED <<deps, nextDep>>
    /\ reqs' = IF AfterInsert(insertOk) = "none" THEN [reqs EXCEPT ![r] = NoReq]
               ELSE [reqs EXCEPT ![r].pc = AfterInsert(insertOk),
                                 ![r].dep = IF insertOk THEN nextDep ELSE NULL]
    /\ UNCHANGED <<userVars, coins, ledger, now, bots, accounts, task, allocated, pending>>

(* users.update({coins: req.user.coins - cost}): the balance the request *)
(* read, less the cost.                                                  *)
DebitRead(c, u, read, cost) == [c EXCEPT ![u] = read - cost]

ReqDebit(r) ==
    /\ reqs[r].pc = "debit"
    /\ coins' = DebitRead(coins, reqs[r].user, reqs[r].coins, reqs[r].cost)
    /\ reqs' = [reqs EXCEPT ![r].pc = "readUsage"]
    /\ UNCHANGED <<userVars, ledger, now, bots, accounts, nextDep, deps, task, allocated, pending>>

(* updateHerokuUsage: select('used_count') *)
ReqReadUsage(r) ==
    /\ reqs[r].pc = "readUsage"
    /\ reqs' = [reqs EXCEPT ![r].pc = "writeUsage", ![r].used = accounts[reqs[r].acct].used]
    /\ UNCHANGED <<userVars, coins, ledger, now, bots, accounts, nextDep, deps, task,
                   allocated, pending>>

(* An increment done by the store on the count it holds (used_count + 1 *)
(* evaluated in the update).                                            *)
UsageAtomic(accs, a, read) == [accs EXCEPT ![a].used = OrDefault(@, 0) + 1]

(* updateHerokuUsage: update({used_count: newCount}), newCount computed *)
(* from the count it read.                                              *)
UsageAfterRead(accs, a, read) == [accs EXCEPT ![a].used = OrDefault(read, 0) + 1]

ReqWriteUsage(r) ==
    /\ reqs[r].pc = "writeUsage"
    /\ accounts' = UsageAfterRead(accounts, reqs[r].acct, reqs[r].used)
    /\ reqs' = [reqs EXCEPT ![r].pc = "ledger"]
    /\ UNCHANGED <<userVars, coins, ledger, now, bots, nextDep, deps, task, allocated, pending>>

(* coin_transactions.insert, the call of deployToHeroku and the answer. *)
ReqLedger(r) ==
    /\ reqs[r].pc = "ledger"
    /\ ledger' = Append(ledger, Entry(reqs[r].user, NULL, reqs[r].cost, "deployment"))
    /\ task' = [task EXCEPT ![reqs[r].dep] =
                  [pc |-> "createApp", bot |-> reqs[r].bot, acct |-> reqs[r].acct]]
    /\ deps' = SetLogs(deps, reqs[r].dep, "creating app")
    /\ reqs' = [reqs EXCEPT ![r] = NoReq]
    /\ UNCHANGED <<userVars, coins, now, bots, accounts, nextDep, allocated, pending>>

(* A deployments.update(...).eq('id', d): it changes the row if there is one. *)
SetStatus(rows, d, status) ==
    IF rows[d] = NoRow THEN rows ELSE [rows EXCEPT ![d].status = status]

TaskStep(d, from, to) ==
    /\ task[d].pc = from
    /\ task' = [task EXCEPT ![d].pc = to]

(* A createApp whose return already marks the deployment configuring. *)
TaskCreateAppConfiguring(d, ok) ==
    /\ TaskStep(d, "createApp", IF ok THEN "deployFromGithub" ELSE "catch")
    /\ deps' = IF ok THEN SetLogs(SetStatus(deps, d, "configuring"), d, "app created")
               ELSE deps
    /\ UNCHANGED <<userVars, coins, ledger, now, bots, accounts, nextDep, allocated, reqs, pending>>

(* deployToHeroku: heroku.createApp returns or throws. *)
TaskCreateApp(d, ok) ==
    /\ TaskStep(d, "createApp", IF ok THEN "deployFromGithub" ELSE "catch")
    /\ deps' = IF ok THEN SetLogs(deps, d, "app created") ELSE deps
    /\ UNCHANGED <<userVars, coins, ledger, now, bots, accounts, nextDep, allocated, reqs, pending>>

(* deployToHeroku: heroku.deployFromGithub returns (status configuring) or throws. *)
TaskDeployFromGithub(d, ok) ==
    /\ TaskStep(d, "deployFromGithub",
                IF ~ok THEN "catch"
                ELSE IF bots[task[d].bot].defaults THEN "setConfigVars" ELSE "activate")
    /\ deps' = IF ok THEN SetLogs(SetStatus(deps, d, "configuring"), d, "deployed") ELSE deps
    /\ UNCHANGED <<userVars, coins, ledger, now, bots, accounts, nextDep, allocated, reqs, pending>>

(* deployToHeroku: heroku.setConfigVars for the defaults returns or throws. *)
TaskSetConfigVars(d, ok) ==
    /\ TaskStep(d, "setConfigVars", IF ok THEN "activate" ELSE "catch")
    /\ deps' = IF ok /\ deps[d] # NoRow
               THEN SetLogs([deps EXCEPT ![d].env = "defaults"], d, "configured")
               ELSE deps
    /\ UNCHANGED <<userVars, coins, ledger, now, bots, accounts, nextDep, allocated, reqs, pending>>

(* deployToHeroku: step 4, status active. *)
TaskActivate(d) ==
    /\ TaskStep(d, "activate", "done")
    /\ deps' = SetLogs(SetStatus(deps, d, "active"), d, "online")
    /\ UNCHANGED <<userVars, coins, ledger, now, bots, accounts, nextDep, allocated, reqs, pending>>

(* The refund of the catch block: increment_coins for the row, if it is *)
(* still there.                                                         *)
Refund(c, row) ==
    IF row = NoRow THEN c ELSE IncrementCoins(c, row.user, row.cost)

(* The ledger after the catch block: the refund inserts no             *)
(* coin_transactions row.                                              *)
RefundLedger(led, row) == led

(* A catch block that refunds and releases the account but leaves the *)
(* status alone.                                                      *)
TaskCatchKeepsStatus(d) ==
    /\ TaskStep(d, "catch", "handled")
    /\ coins' = Refund(coins, deps[d])
    /\ ledger' = RefundLedger(ledger, deps[d])
    /\ accounts' = UpdateHerokuUsage(accounts, task[d].acct, FALSE)
    /\ UNCHANGED <<userVars, now, bots, nextDep, deps, allocated, reqs, pending>>

(* deployToHeroku: the catch block. *)
TaskCatch(d) ==
    /\ TaskStep(d, "catch", "handled")
    /\ deps' = SetLogs(SetStatus(deps, d, "failed"), d, "error")
    /\ coins' = Refund(coins, deps[d])
    /\ ledger' = RefundLedger(ledger, deps[d])
    /\ accounts' = UpdateHerokuUsage(accounts, task[d].acct, FALSE)
    /\ UNCHANGED <<userVars, now, bots, nextDep, allocated, reqs, pending>>

(* A delete that gives up when heroku.deleteApp throws. *)
StopsOnTeardownError(teardownOk) == teardownOk

(* The try/catch around heroku.deleteApp: the handler goes on to the   *)
(* row's deletion whether deleteApp returned (teardownOk) or threw.    *)
ContinuesAfterTeardown(teardownOk) == TRUE

(* DELETE /delete/:id *)
DeleteDeployment(u, d, teardownOk) ==
    /\ Authenticated(u)
    /\ IF deps[d] # NoRow /\ deps[d].user = u /\ ContinuesAfterTeardown(teardownOk)
       THEN /\ deps' = [deps EXCEPT ![d] = NoRow]
            /\ accounts' = UpdateHerokuUsage(accounts, deps[d].acct, FALSE)
       ELSE UNCHANGED <<accounts, deps>>
    /\ UNCHANGED <<userVars, coins, ledger, now, bots, nextDep, task, allocated, reqs, pending>>

(* The required-variable validation of PUT /update-env: a required      *)
(* variable without default must come with the request.                 *)
EnvValid(bot, provided) == ~bot.required \/ provided

(* validatedEnvVars: for every variable of the bot's schema the value   *)
(* of the request, else its default.                                    *)
ValidatedEnv(bot, provided) ==
    IF ~(bot.defaults \/ bot.required) THEN "empty"
    ELSE IF provided THEN "request" ELSE "defaults"

(* The answer of PUT /update-env; pushOk: heroku.setConfigVars returns, *)
(* restartOk: heroku.restartApp returns.  The account of a row is never *)
(* deleted, so the account lookup finds it.                             *)
UpdateEnvCode(u, d, provided, pushOk, restartOk) ==
    IF deps[d] = NoRow \/ deps[d].user # u THEN 404
    ELSE IF coins[u] < OrDefault(bots[deps[d].bot].cost, DefaultEnvCost) THEN 400
    ELSE IF ~EnvValid(bots[deps[d].bot], provided) THEN 400
    ELSE IF ~pushOk \/ ~restartOk THEN 500
    ELSE 200

(* PUT /update-env/:id *)
UpdateEnv(u, d, provided, pushOk, restartOk) ==
    /\ Authenticated(u)
    /\ IF UpdateEnvCode(u, d, provided, pushOk, restartOk) = 200
       THEN LET cost == OrDefault(bots[deps[d].bot].cost, DefaultEnvCost)
            IN /\ Len(ledger) < MaxLedger
               /\ deps' = [deps EXCEPT ![d].env = ValidatedEnv(bots[deps[d].bot], provided)]
               /\ coins' = Debit(coins, u, cost)
               /\ ledger' = Append(ledger, Entry(u, NULL, cost, "deployment"))
       ELSE UNCHANGED <<coins, ledger, deps>>
    /\ UNCHANGED <<userVars, now, bots, accounts, nextDep, task, allocated, reqs, pending>>

(* A stop-all that selects every deployment, whatever its status. *)
AllDeps == {d \in DepIds : deps[d] # NoRow}

(* .from('deployments').select(...).eq('status', 'active') *)
ActiveDeps == {d \in DepIds : deps[d] # NoRow /\ deps[d].status = "active"}

(* used_count: supabase.raw('used_count - 1'), once for each stopped   *)
(* deployment of the account.                                          *)
RawDecrement(accs, stopped) ==
    [a \in AccountIds |->
        [accs[a] EXCEPT !.used = @ - Cardinality({d \in stopped : deps[d].acct = a})]]

(* POST /maintenance/stop-all-bots (admin); `stopped` are the active   *)
(* deployments whose deleteApp returned, the others threw and are kept. *)
(* supabase.raw belongs to the database client, which is not part of    *)
(* the sources: rawOk is whether it builds the SQL expression or throws *)
(* (the throw is caught after the status was written).                  *)
StopAllBots(stopped) ==
    /\ stopped \subseteq ActiveDeps
    /\ deps' = [d \in DepIds |->
                  IF d \in stopped THEN [deps[d] EXCEPT !.status = "stopped"] ELSE deps[d]]
    /\ \E rawOk \in BOOLEAN :
          accounts' = IF rawOk THEN RawDecrement(accounts, stopped) ELSE accounts
    /\ UNCHANGED <<userVars, coins, ledger, now, bots, nextDep, task, allocated, reqs, pending>>

(* ---------------------------- bot routes ----------------------------- *)
(* bots.owner_id: set by submit-request, never written again. *)
BotOwner(b) == IF b = 2 THEN Admin ELSE Admin + 1

BotFields == {"cost", "is_active"}

(* An edit that leaves is_approved as it is. *)
ApprovalKept(approved, fields) == approved

(* PUT /:id: an update that carries a field resets the approval. *)
ApprovalAfterEdit(approved, fields) ==
    IF fields # {} /\ approved THEN FALSE ELSE approved

(* PUT /:id (owner); `fields` are the fields the body carries, `cost` *)
(* the value of its cost field.                                       *)
UpdateBot(u, b, fields, cost) ==
    /\ Authenticated(u)
    /\ bots' = IF BotOwner(b) # u THEN bots
               ELSE [bots EXCEPT
                       ![b].cost = IF "cost" \in fields THEN cost ELSE @,
                       ![b].approved = ApprovalAfterEdit(@, fields)]
    /\ UNCHANGED <<userVars, coins, ledger, now, accounts, depVars>>

(* The env sections a fetched kerm.json can have: variables with      *)
(* default values of which one is required, or no variable.           *)
KermJsons == {[defaults |-> TRUE, required |-> TRUE],
              [defaults |-> FALSE, required |-> FALSE]}

(* POST /:id/sync (owner); fetched: the repository's kerm.json was     *)
(* found and is valid, kerm: what it declares.                         *)
SyncBot(u, b, fetched, kerm) ==
    /\ Authenticated(u)
    /\ bots' = IF BotOwner(b) # u \/ ~fetched THEN bots
               ELSE [bots EXCEPT ![b].approved = FALSE,
                                 ![b].defaults = kerm.defaults,
                                 ![b].required = kerm.required]
    /\ UNCHANGED <<userVars, coins, ledger, now, accounts, depVars>>

(* POST /bot-requests/:id/approve (admin) *)
AdminApproveBot(b, approve) ==
    /\ bots' = [bots EXCEPT ![b].approved = approve]
    /\ UNCHANGED <<userVars, coins, ledger, now, accounts, depVars>>

(* ----------------------- admin account routes ------------------------ *)
(* PUT /update-heroku-account/:id: a max_deployments of 0 is falsy and  *)
(* passes the 1..100 check, and is then written.                        *)
AdminUpdateHerokuAccount(a, max, active) ==
    /\ ~(max # 0 /\ (max < 1 \/ max > 100))
    /\ accounts' = [accounts EXCEPT ![a].max = max, ![a].active = active]
    /\ UNCHANGED <<userVars, coins, ledger, now, bots, depVars>>

(* POST /update-heroku-usage/:id *)
AdminUpdateUsage(a, increment) ==
    /\ increment => accounts[a].used < MaxUsed
    /\ accounts' = [accounts EXCEPT ![a].used =
                      Max2(0, OrDefault(@, 0) + (IF increment THEN 1 ELSE -1))]
    /\ UNCHANGED <<userVars, coins, ledger, now, bots, depVars>>

(* The allocation step of POST /deploy on its own: the account          *)
(* getAvailableHerokuAccount returns for the rows the store answers.    *)
Allocate(ord) ==
    /\ allocated' = GetAvailableHerokuAccount(accounts, ord)
    /\ UNCHANGED <<userVars, coins, ledger, now, bots, accounts, nextDep, deps, task, reqs, pending>>

(* -------------------------- specifications --------------------------- *)
NextCoin ==
    \/ \E ref \in UserIds \cup {NULL} : Signup(ref)
    \/ \E u \in UserIds : SignupDuplicate(u)
    \/ \E u \in UserIds : Verify(u)
    \/ \E u \in UserIds : ClaimDaily(u)
    \/ \E s, r \in UserIds, amount \in Amounts : Send(s, r, amount)
    \/ \E u \in UserIds, amount \in Amounts : AdminAddCoins(u, amount)
    \/ Tick

NextDeploy ==
    \/ \E u \in UserIds, b \in BotIds, cost \in Costs, ord \in Orderings(accounts) :
          CreateDeployment(u, b, cost, ord)
    \/ \E d \in DepIds, ok \in BOOLEAN : TaskCreateApp(d, ok)
    \/ \E d \in DepIds, ok \in BOOLEAN : TaskDeployFromGithub(d, ok)
    \/ \E d \in DepIds, ok \in BOOLEAN : TaskSetConfigVars(d, ok)
    \/ \E d \in DepIds : TaskActivate(d)
    \/ \E d \in DepIds : TaskCatch(d)
    \/ \E u \in UserIds, d \in DepIds, teardownOk \in BOOLEAN :
          DeleteDeployment(u, d, teardownOk)
    \/ \E u \in UserIds, d \in DepIds, provided, pushOk, restartOk \in BOOLEAN :
          UpdateEnv(u, d, provided, pushOk, restartOk)
    \/ \E stopped \in SUBSET DepIds : StopAllBots(stopped)

NextAlloc ==
    \/ \E a \in AccountIds, max \in 0..MaxCap, active \in BOOLEAN :
          AdminUpdateHerokuAccount(a, max, active)
    \/ \E a \in AccountIds, increment \in BOOLEAN : AdminUpdateUsage(a, increment)
    \/ \E ord \in Orderings(accounts) : Allocate(ord)

Next == NextCoin \/ NextDeploy

(* Every route and the provisioning task, from the seeded database. *)
Spec == Init /\ [][Next]_vars

(* The coin economy alone. *)
SpecCoin == Init /\ [][NextCoin]_vars

(* The database after two signups without referral code, the first one *)
(* verified: users Admin + 1 and Admin + 2 with WelcomeCoins each and  *)
(* no ledger entry.                                                    *)
InitTransfer ==
    /\ nextUser = Admin + 3
    /\ verified = [u \in UserIds |-> u < Admin + 2]
    /\ referredBy = [u \in UserIds |-> NULL]
    /\ coins = [u \in UserIds |-> IF u \in {Admin + 1, Admin + 2} THEN WelcomeCoins ELSE 0]
    /\ ledger = <<>>
    /\ now = 0
    /\ bots = Catalogue
    /\ accounts = Pool(MaxCap)
    /\ nextDep = 1
    /\ deps = [d \in DepIds |-> NoRow]
    /\ task = [d \in DepIds |-> NoTask]
    /\ allocated = NULL
    /\ reqs = [r \in ReqIds |-> NoReq]
    /\ pending = [q \in ReqIds |-> NoPending]

NextTransfer ==
    \/ \E u \in UserIds : Verify(u)
    \/ \E u \in UserIds : ClaimDaily(u)
    \/ \E s, r \in UserIds, amount \in Amounts : Send(s, r, amount)
    \/ \E u \in UserIds, amount \in Amounts : AdminAddCoins(u, amount)
    \/ Tick

(* Claims, transfers and admin credits between signed-up users. *)
SpecTransfer == InitTransfer /\ [][NextTransfer]_vars

(* The database after one signup without referral code and its         *)
(* verification (user Admin + 1 with WelcomeCoins, no ledger entry),    *)
(* over a pool of one capacity in which the administrator has left     *)
(* account 1 alone active (update-heroku-account, is_active false).    *)
InitDeploy ==
    /\ nextUser = Admin + 2
    /\ verified = [u \in UserIds |-> u < Admin + 2]
    /\ referredBy = [u \in UserIds |-> NULL]
    /\ coins = [u \in UserIds |-> IF u = Admin + 1 THEN WelcomeCoins ELSE 0]
    /\ ledger = <<>>
    /\ now = 0
    /\ bots = Catalogue
    /\ \E m \in 1..MaxCap :
          accounts = [a \in AccountIds |-> [Pool(m)[a] EXCEPT !.active = (a = 1)]]
    /\ nextDep = 1
    /\ deps = [d \in DepIds |-> NoRow]
    /\ task = [d \in DepIds |-> NoTask]
    /\ allocated = NULL
    /\ reqs = [r \in ReqIds |-> NoReq]
    /\ pending = [q \in ReqIds |-> NoPending]

(* The deployment lifecycle of verified users. *)
SpecDeploy == InitDeploy /\ [][NextDeploy]_vars

(* The allocator over the pools the administrator can set up. *)
SpecAlloc == Init /\ [][NextAlloc]_vars

NextPool ==
    \/ \E u \in UserIds, b \in BotIds, cost \in Costs, ord \in Orderings(accounts) :
          CreateDeployment(u, b, cost, ord)
    \/ \E u \in UserIds, d \in DepIds, teardownOk \in BOOLEAN :
          DeleteDeployment(u, d, teardownOk)
    \/ \E a \in AccountIds, max \in 0..MaxCap, active \in BOOLEAN :
          AdminUpdateHerokuAccount(a, max, active)

(* Deployment requests while the administrator reconfigures the pool. *)
SpecPool == InitDeploy /\ [][NextPool]_vars

(* The requests carry the cost the catalogue shows for the bot. *)
NextRace ==
    \/ \E r \in ReqIds, u \in UserIds, b \in BotIds, ord \in Orderings(accounts) :
          ReqSelect(r, u, b, bots[b].cost, ord)
    \/ \E r \in ReqIds, insertOk \in BOOLEAN : ReqInsert(r, insertOk)
    \/ \E r \in ReqIds : ReqDebit(r)
    \/ \E r \in ReqIds : ReqReadUsage(r)
    \/ \E r \in ReqIds : ReqWriteUsage(r)
    \/ \E r \in ReqIds : ReqLedger(r)

(* Concurrent POST /deploy requests, interleaved at their awaits. *)
SpecRace == InitDeploy /\ [][NextRace]_vars

NextCatalogue ==
    \/ \E u \in UserIds, b \in BotIds, fields \in SUBSET BotFields, cost \in Costs :
          UpdateBot(u, b, fields, cost)
    \/ \E u \in UserIds, b \in BotIds, fetched \in BOOLEAN, kerm \in KermJsons :
          SyncBot(u, b, fetched, kerm)
    \/ \E b \in BotIds, approve \in BOOLEAN : AdminApproveBot(b, approve)

(* The bot catalogue under owner edits and moderation. *)
SpecCatalogue == InitDeploy /\ [][NextCatalogue]_vars

NextBots ==
    \/ \E b \in BotIds, approve \in BOOLEAN : AdminApproveBot(b, approve)
    \/ \E u \in UserIds, b \in BotIds \cup {NULL}, cost \in Costs,
          ord \in Orderings(accounts) : CreateDeployment(u, b, cost, ord)

(* Deploy requests while the administrator moderates the catalogue. *)
SpecBots == InitDeploy /\ [][NextBots]_vars

(* ============================== claims =============================== *)
LiveStatus == {"pending", "configuring", "active"}

Created(d) == deps[d] = NoRow /\ deps'[d] # NoRow

(* C1: when the provisioning task handles the failure of a deployment,  *)
(* its owner gets the debited cost back and the allocated account's     *)
(* used_count goes down by one; used_count is not decremented again for *)
(* that deployment afterwards (deleting the failed deployment leaves    *)
(* every used_count as it is).                                          *)
C1_FailedNetZero ==
    [][\A d \in DepIds :
          /\ (task[d].pc = "catch" /\ task'[d].pc = "handled" /\ deps[d] # NoRow) =>
                /\ coins'[deps[d].user] = coins[deps[d].user] + deps[d].cost
                /\ accounts'[task[d].acct].used = accounts[task[d].acct].used - 1
          /\ (task[d].pc = "handled" /\ deps[d] # NoRow /\ deps'[d] = NoRow) =>
                accounts' = accounts]_vars

(* C2: a deployment is created only for a user whose balance is at     *)
(* least the cost of the bot, whatever cost the request carries.       *)
C2_BalanceCoversBotCost ==
    [][\A d \in DepIds :
          Created(d) => coins[deps'[d].user] >= bots[deps'[d].bot].cost]_vars

(* C3: while some active account has used_count < max_deployments, the *)
(* allocator returns an active account with used_count <               *)
(* max_deployments.                                                    *)
C3_ReturnsAccountWithCapacity ==
    [][\A ord \in Orderings(accounts) :
          (Allocate(ord) /\ \E a \in ActiveIds(accounts) :
                                accounts[a].used < accounts[a].max) =>
             /\ allocated' \in ActiveIds(accounts)
             /\ accounts[allocated'].used < accounts[allocated'].max]_vars

(* C4: every user's balance is the ledger projection: received minus   *)
(* sent.                                                               *)
C4_BalanceIsLedgerProjection ==
    \A u \in UserIds : Exists(u) => coins[u] = LedgerBalance(u)

(* C5: a step that writes a transfer entry writes exactly that one     *)
(* entry, takes the amount from the sender and gives it to the         *)
(* receiver, who is another user, and changes no other balance; the    *)
(* sender held at least the amount.  A send of more than the sender    *)
(* holds, and every send that writes no entry, changes no balance.     *)
C5_SendMovesAmount ==
    [][\A s, r \in UserIds, a \in Amounts :
          Send(s, r, a) =>
             IF coins[s] < a \/ ledger' = ledger
             THEN UNCHANGED <<coins, ledger>>
             ELSE /\ ledger' = Append(ledger,
                        [sender |-> s, receiver |-> r, amount |-> a,
                         type |-> "transfer", at |-> now])
                  /\ s # r
                  /\ coins'[s] = coins[s] - a
                  /\ coins'[r] = coins[r] + a
                  /\ coins'[s] + coins'[r] = coins[s] + coins[r]
                  /\ \A o \in UserIds \ {s, r} : coins'[o] = coins[o]]_vars

C5_Witness ==
    \E i \in 1..Len(ledger) :
        /\ ledger[i].type = "transfer"
        /\ coins[ledger[i].sender] = WelcomeCoins - ledger[i].amount
        /\ coins[ledger[i].receiver] = WelcomeCoins + ledger[i].amount

(* A daily entry of u less than 24 hours old. *)
RecentDaily(u) ==
    \E i \in 1..Len(ledger) :
        /\ ledger[i].type = "daily"
        /\ ledger[i].receiver = u
        /\ now - ledger[i].at < 24

(* C6: a claim-daily made less than 24 hours after a daily entry of    *)
(* the user writes nothing; a claim-daily that writes, writes one      *)
(* daily entry and adds the daily reward to the balance; and a user    *)
(* without a daily entry of the last 24 hours can claim with success.  *)
C6_DailyCooldown ==
    /\ [](\A u \in UserIds :
            (Authenticated(u) /\ Len(ledger) < MaxLedger /\ ~RecentDaily(u)) =>
                ENABLED (ClaimDaily(u) /\ ledger' # ledger))
    /\ [][\A u \in UserIds :
            ClaimDaily(u) =>
               IF RecentDaily(u)
               THEN UNCHANGED <<coins, ledger>>
               ELSE /\ ledger' = Append(ledger,
                          [sender |-> NULL, receiver |-> u, amount |-> DailyReward,
                           type |-> "daily", at |-> now])
                    /\ coins' = [coins EXCEPT ![u] = @ + DailyReward]]_vars

(* A second claim went through 24 hours or more after the first. *)
C6_Witness ==
    \E i, j \in 1..Len(ledger) :
        /\ i < j
        /\ ledger[i].type = "daily" /\ ledger[j].type = "daily"
        /\ ledger[i].receiver = ledger[j].receiver
        /\ ledger[j].at - ledger[i].at >= 24

ProvisioningAdvances(d) ==
    /\ task[d].pc \in {"createApp", "deployFromGithub", "setConfigVars", "activate"}
    /\ task'[d].pc \in {"deployFromGithub", "setConfigVars", "activate", "done"}
    /\ task'[d].pc # task[d].pc

(* C7: the step that creates a deployment of cost c for a user holding *)
(* b >= c leaves the balance at b - c, and no step of a provisioning   *)
(* that goes well changes a balance.                                   *)
C7_DebitAtCreate ==
    [][\A d \in DepIds :
          /\ Created(d) =>
                /\ coins[deps'[d].user] >= deps'[d].cost
                /\ coins'[deps'[d].user] = coins[deps'[d].user] - deps'[d].cost
          /\ ProvisioningAdvances(d) => coins' = coins]_vars

(* A deployment paid with the whole welcome balance went active. *)
C7_Witness ==
    \E d \in DepIds :
        /\ deps[d].status = "active"
        /\ deps[d].cost = WelcomeCoins
        /\ coins[deps[d].user] = 0

Lifecycle ==
    {<<"pending", "configuring">>, <<"configuring", "active">>,
     <<"pending", "failed">>, <<"configuring", "failed">>, <<"active", "stopped">>}

(* C8: a row is born pending, every change of its status is a step of  *)
(* the lifecycle, and only stop-all-bots stops a deployment.           *)
C8_Lifecycle ==
    [][\A d \in DepIds :
          /\ Created(d) => deps'[d].status = "pending"
          /\ (deps[d] # NoRow /\ deps'[d] # NoRow /\ deps'[d].status # deps[d].status) =>
                /\ <<deps[d].status, deps'[d].status>> \in Lifecycle
                /\ deps'[d].status = "stopped" =>
                      \E stopped \in SUBSET DepIds : StopAllBots(stopped)]_vars

(* One deployment was stopped while another one had failed. *)
C8_Witness ==
    \E d, e \in DepIds : deps[d].status = "stopped" /\ deps[e].status = "failed"

(* C9: every failed deployment has a refund entry in the ledger: a     *)
(* credit of the deployment's cost to its owner.                       *)
C9_RefundHasLedgerEntry ==
    \A d \in DepIds :
        (deps[d] # NoRow /\ deps[d].status = "failed") =>
            \E i \in 1..Len(ledger) :
                /\ ledger[i].receiver = deps[d].user
                /\ ledger[i].amount = deps[d].cost

LiveOn(a) ==
    {d \in DepIds : deps[d] # NoRow /\ deps[d].acct = a /\ deps[d].status \in LiveStatus}

(* C10: used_count is the number of live deployments of the account.   *)
C10_UsedCountIsLiveCount ==
    \A a \in AccountIds : accounts[a].used = Cardinality(LiveOn(a))

(* C11: a signup, with or without referral code, credits nobody who    *)
(* already has an account and writes no ledger entry: the referral     *)
(* rewards wait for the verification.                                  *)
C11_NoRewardAtSignup ==
    [][nextUser' # nextUser =>
          /\ ledger' = ledger
          /\ \A u \in UserIds : Exists(u) => coins'[u] = coins[u]]_vars

(* C12: a deployment is only created on an account that has            *)
(* used_count < max_deployments when it is selected.                   *)
C12_NeverOnSaturated ==
    [][\A d \in DepIds :
          Created(d) =>
             accounts[deps'[d].acct].used < accounts[deps'[d].acct].max]_vars

(* C13: selection and write-back are separate steps.  A request binds  *)
(* its deployment to the account it selected, whatever that account's  *)
(* used_count has become since, and the write-back stores the count    *)
(* the request read plus one, whatever the count has become since.     *)
C13_SelectionNotAtomic ==
    [][\A r \in ReqIds :
          /\ (reqs[r].pc = "insert" /\ reqs'[r].pc = "debit") =>
                /\ Created(reqs'[r].dep)
                /\ deps'[reqs'[r].dep].acct = reqs[r].acct
          /\ (reqs[r].pc = "writeUsage" /\ reqs'[r].pc = "ledger") =>
                accounts'[reqs[r].acct].used = reqs[r].used + 1]_vars

(* Two requests that both selected the account at used_count =         *)
(* max_deployments - 1 are both bound to it: more live deployments     *)
(* than max_deployments, and a used_count that recorded only one.      *)
C13_Witness ==
    \E a \in AccountIds :
        /\ Cardinality(LiveOn(a)) > accounts[a].max
        /\ accounts[a].used = accounts[a].max
        /\ \A r \in ReqIds : reqs[r].pc \in {"none", "ledger"}

(* C14: no account's used_count is ever negative. *)
C14_UsedCountNonNegative ==
    \A a \in AccountIds : accounts[a].used >= 0

BadReceiver(s, r) == r = s \/ ~Exists(r) \/ ~verified[r]

UnknownOrUnapproved(b) == b \notin BotIds \/ ~bots[b].approved

(* C16: a deployment row is created only for a bot that is approved    *)
(* when the request is made; a request naming an unknown or unapproved *)
(* bot changes no row, no balance, no ledger and no used_count.        *)
C16_OnlyApprovedBots ==
    [][/\ \A d \in DepIds :
             Created(d) => deps'[d].bot \in BotIds /\ bots[deps'[d].bot].approved
       /\ \A u \in UserIds, b \in BotIds \cup {NULL}, cost \in Costs,
             ord \in Orderings(accounts) :
             (CreateDeployment(u, b, cost, ord) /\ UnknownOrUnapproved(b)) =>
                UNCHANGED <<deps, coins, ledger, accounts>>]_vars

(* A deployment exists for a bot whose approval was taken back later,  *)
(* while another bot is unapproved and has no deployment.              *)
C16_Witness ==
    /\ \E d \in DepIds : deps[d] # NoRow /\ ~bots[deps[d].bot].approved
    /\ \E b \in BotIds : ~bots[b].approved /\ \A d \in DepIds : deps[d].bot # b

(* C17: an owner's PUT /:id that carries a field, and an owner's sync  *)
(* that fetched a valid kerm.json, leave the bot unapproved; approved  *)
(* goes from false to true only in the admin's approve action.         *)
C17_EditResetsApproval ==
    [][\A b \in BotIds :
          /\ \A u \in UserIds, fields \in SUBSET BotFields, cost \in Costs :
                (UpdateBot(u, b, fields, cost) /\ u = BotOwner(b) /\ fields # {}) =>
                   ~bots'[b].approved
          /\ \A u \in UserIds, kerm \in KermJsons :
                (SyncBot(u, b, TRUE, kerm) /\ u = BotOwner(b)) =>
                   ~bots'[b].approved
          /\ (~bots[b].approved /\ bots'[b].approved) => AdminApproveBot(b, TRUE)]_vars

(* A bot of the catalogue lost its approval with a new cost, and a bot *)
(* that was not approved is approved now.                              *)
C17_Witness ==
    /\ \E b \in BotIds :
          Catalogue[b].approved /\ ~bots[b].approved /\ bots[b].cost # Catalogue[b].cost
    /\ \E b \in BotIds : ~Catalogue[b].approved /\ bots[b].approved

(* C18: when there are active accounts and none of them has            *)
(* used_count < max_deployments, the allocator returns an active       *)
(* account whose max_deployments - used_count is the largest of the    *)
(* active pool.                                                        *)
C18_FallbackMaximizesSpare ==
    [][\A ord \in Orderings(accounts) :
          (/\ Allocate(ord)
           /\ ActiveIds(accounts) # {}
           /\ \A a \in ActiveIds(accounts) : ~(accounts[a].used < accounts[a].max)) =>
             /\ allocated' \in ActiveIds(accounts)
             /\ \A a \in ActiveIds(accounts) :
                   accounts[a].max - accounts[a].used <=
                      accounts[allocated'].max - accounts[allocated'].used]_vars

NoActiveAccount == \A a \in AccountIds : ~accounts[a].active

(* C19: the allocator returns an account exactly when some account is  *)
(* active, and then an active one; while no account is active every    *)
(* create request is answered with an error and writes no row, no      *)
(* balance, no ledger entry and no used_count; no deployment is ever   *)
(* bound to a deactivated account.                                     *)
C19_NoActiveAccountIsError ==
    /\ [](\A ord \in Orderings(accounts) :
            LET a == GetAvailableHerokuAccount(accounts, ord)
            IN /\ (a = NULL) <=> NoActiveAccount
               /\ a # NULL => accounts[a].active)
    /\ [](NoActiveAccount =>
            \A u \in UserIds, b \in BotIds, cost \in Costs, ord \in Orderings(accounts) :
               DeployCode(u, b, cost, GetAvailableHerokuAccount(accounts, ord)) >= 400)
    /\ [][/\ \A d \in DepIds : Created(d) => accounts[deps'[d].acct].active
          /\ NoActiveAccount =>
                /\ \A d \in DepIds : ~Created(d)
                /\ coins' = coins /\ ledger' = ledger
                /\ \A a \in AccountIds : accounts'[a].used <= accounts[a].used]_vars

(* Every account was deactivated after a deployment was made, and the  *)
(* user could still pay for another one.                               *)
C19_Witness ==
    /\ NoActiveAccount
    /\ \E d \in DepIds : deps[d] # NoRow
    /\ \E u \in UserIds : Authenticated(u) /\ coins[u] >= 5
    /\ nextDep <= MaxDeps


(* --------------------------- update-env ------------------------------ *)
NextEnv ==
    \/ \E u \in UserIds, b \in BotIds, cost \in Costs, ord \in Orderings(accounts) :
          CreateDeployment(u, b, cost, ord)
    \/ \E d \in DepIds, ok \in BOOLEAN : TaskCreateApp(d, ok)
    \/ \E d \in DepIds, ok \in BOOLEAN : TaskDeployFromGithub(d, ok)
    \/ \E d \in DepIds, ok \in BOOLEAN : TaskSetConfigVars(d, ok)
    \/ \E d \in DepIds : TaskActivate(d)
    \/ \E d \in DepIds : TaskCatch(d)
    \/ \E u \in UserIds, d \in DepIds, provided, pushOk, restartOk \in BOOLEAN :
          UpdateEnv(u, d, provided, pushOk, restartOk)
    \/ \E u \in UserIds, cost \in {0, 5} : UpdateBot(u, 1, {"cost"}, cost)

(* Deployments whose variables are updated while the owner of bot 1   *)
(* edits its cost.                                                     *)
SpecEnv == InitDeploy /\ [][NextEnv]_vars

(* C20: an update-env request of the deployment's owner debits the     *)
(* bot's cost and appends one deployment entry (sender the user, no    *)
(* receiver) exactly when the required variables validate, the balance *)
(* covers the bot's cost and the config push and the restart succeed;  *)
(* otherwise coins, ledger and stored variables stay as they are; the  *)
(* deployment's status never changes.                                  *)
C20_UpdateEnvCharge ==
    [][\A u \in UserIds, d \in DepIds, provided, pushOk, restartOk \in BOOLEAN :
          (/\ UpdateEnv(u, d, provided, pushOk, restartOk)
           /\ deps[d] # NoRow /\ deps[d].user = u) =>
             LET bot == bots[deps[d].bot]
             IN /\ deps'[d].status = deps[d].status
                /\ IF EnvValid(bot, provided) /\ pushOk /\ restartOk /\ coins[u] >= bot.cost
                   THEN /\ coins' = [coins EXCEPT ![u] = @ - bot.cost]
                        /\ ledger' = Append(ledger, Entry(u, NULL, bot.cost, "deployment"))
                   ELSE /\ coins' = coins
                        /\ ledger' = ledger
                        /\ deps'[d].env = deps[d].env]_vars


NextDelete ==
    \/ \E u \in UserIds, b \in BotIds, cost \in Costs, ord \in Orderings(accounts) :
          CreateDeployment(u, b, cost, ord)
    \/ \E d \in DepIds, ok \in BOOLEAN : TaskCreateApp(d, ok)
    \/ \E d \in DepIds : TaskCatch(d)
    \/ \E u \in UserIds, d \in DepIds, teardownOk \in BOOLEAN :
          DeleteDeployment(u, d, teardownOk)

(* Deployments deleted by users while their provisioning runs or has   *)
(* failed at its first external call.                                  *)
SpecDelete == InitDeploy /\ [][NextDelete]_vars

Owned(u, d) == deps[d] # NoRow /\ deps[d].user = u

(* C21: a delete by the owner removes the row and takes one from the   *)
(* bound account's used_count, not below 0, whether the external       *)
(* teardown returns or throws, and leaves every balance and the ledger *)
(* as they are; such a delete always goes through.  A delete by anyone *)
(* else changes nothing.                                               *)
C21_DeleteFrame ==
    /\ [](\A u \in UserIds, d \in DepIds, teardownOk \in BOOLEAN :
            (Authenticated(u) /\ Owned(u, d)) =>
                ENABLED (DeleteDeployment(u, d, teardownOk) /\ deps'[d] = NoRow))
    /\ [][\A u \in UserIds, d \in DepIds, teardownOk \in BOOLEAN :
            DeleteDeployment(u, d, teardownOk) =>
               IF Owned(u, d)
               THEN /\ deps' = [deps EXCEPT ![d] = NoRow]
                    /\ accounts' = [accounts EXCEPT ![deps[d].acct].used =
                                       IF @ >= 1 THEN @ - 1 ELSE 0]
                    /\ coins' = coins
                    /\ ledger' = ledger
               ELSE UNCHANGED <<deps, accounts, coins, ledger>>]_vars

(* A paid deployment was deleted by its owner, who got nothing back,   *)
(* while another deployment is still there.                            *)
C21_Witness ==
    \E d, e \in DepIds :
        /\ d < nextDep /\ deps[d] = NoRow
        /\ deps[e] # NoRow
        /\ coins[Admin + 1] = 0
        /\ Len(ledger) = 2


IsPrefix(s, t) == Len(s) <= Len(t) /\ \A i \in 1..Len(s) : s[i] = t[i]

(* C22: the logs of a deployment only grow: whenever a step changes    *)
(* the logs of a row, the logs before the step are a prefix of the     *)
(* logs after it.                                                      *)
C22_LogsAppendOnly ==
    [][\A d \in DepIds :
          (deps[d] # NoRow /\ deps'[d] # NoRow) =>
              IsPrefix(deps[d].logs, deps'[d].logs)]_vars


(* The provisioning task of d waits for an external call to return. *)
Stuck(d) == task[d].pc \in {"createApp", "deployFromGithub", "setConfigVars"}

CatchStep(d) == task[d].pc = "catch" /\ task'[d].pc = "handled"

InsertRefused(r) == reqs[r].pc = "insert" /\ reqs'[r] = NoReq

PastInsert == {"debit", "readUsage", "writeUsage", "ledger"}

TaskAdvance(d) ==
    \/ \E ok \in BOOLEAN : TaskCreateApp(d, ok)
    \/ \E ok \in BOOLEAN : TaskDeployFromGithub(d, ok)
    \/ \E ok \in BOOLEAN : TaskSetConfigVars(d, ok)
    \/ TaskActivate(d)
    \/ TaskCatch(d)

(* The requests carry the cost the catalogue shows for the bot. *)
NextLive ==
    \/ \E u \in UserIds, b \in BotIds, ord \in Orderings(accounts) :
          CreateDeployment(u, b, bots[b].cost, ord)
    \/ \E d \in DepIds, ok \in BOOLEAN : TaskCreateApp(d, ok)
    \/ \E d \in DepIds, ok \in BOOLEAN : TaskDeployFromGithub(d, ok)
    \/ \E d \in DepIds, ok \in BOOLEAN : TaskSetConfigVars(d, ok)
    \/ \E d \in DepIds : TaskActivate(d)
    \/ \E d \in DepIds : TaskCatch(d)
    \/ \E u \in UserIds, d \in DepIds, teardownOk \in BOOLEAN :
          DeleteDeployment(u, d, teardownOk)

(* Deployments and deletions, with every call awaited by a             *)
(* provisioning task returning or throwing in the end: the task is not *)
(* left forever at a step it can take.                                 *)
SpecLive ==
    /\ InitDeploy
    /\ [][NextLive]_vars
    /\ \A d \in DepIds : WF_vars(TaskAdvance(d))

Threw(d) ==
    \/ TaskCreateApp(d, FALSE)
    \/ TaskDeployFromGithub(d, FALSE)
    \/ TaskSetConfigVars(d, FALSE)

RECURSIVE CostOfRows(_, _)
CostOfRows(u, S) ==
    IF S = {} THEN 0
    ELSE LET d == CHOOSE x \in S : TRUE
         IN (IF deps[d] # NoRow /\ deps[d].user = u THEN deps[d].cost ELSE 0)
            + CostOfRows(u, S \ {d})

(* C26: once the create requests of a user are answered, the coins     *)
(* taken from the welcome balance are the sum of the costs of the      *)
(* deployments created, however the requests were interleaved.         *)
C26_DebitsAreSumOfCosts ==
    (\A r \in ReqIds : reqs[r] = NoReq) =>
        coins[Admin + 1] = WelcomeCoins - CostOfRows(Admin + 1, DepIds)


(* ------------------------ concurrent debits -------------------------- *)
(* The requests carry the cost the catalogue shows for the bot. *)
NextOverdraft ==
    \/ \E q \in ReqIds, r \in UserIds, amount \in Amounts :
          SendValidate(q, Admin + 1, r, amount)
    \/ \E q \in ReqIds : SendWrite(q)
    \/ \E r \in ReqIds, b \in BotIds, ord \in Orderings(accounts) :
          ReqSelect(r, Admin + 1, b, bots[b].cost, ord)
    \/ \E r \in ReqIds, insertOk \in BOOLEAN : ReqInsert(r, insertOk)
    \/ \E r \in ReqIds : ReqDebit(r)
    \/ \E r \in ReqIds : ReqReadUsage(r)
    \/ \E r \in ReqIds : ReqWriteUsage(r)
    \/ \E r \in ReqIds : ReqLedger(r)
    \/ \E u \in UserIds, d \in DepIds, provided, pushOk, restartOk \in BOOLEAN :
          UpdateEnv(u, d, provided, pushOk, restartOk)

(* Send, deploy and update-env requests of the signed-up user, the     *)
(* send and the deploy interleaved at their awaits.                    *)
SpecOverdraft == InitDeploy /\ [][NextOverdraft]_vars

(* C27: no balance is ever negative. *)
C27_NoNegativeBalance == \A u \in UserIds : coins[u] >= 0


(* ------------------------- concurrent claims ------------------------- *)
NextDaily ==
    \/ \E q \in ReqIds, u \in UserIds : ClaimCheck(q, u)
    \/ \E q \in ReqIds : ClaimWrite(q)
    \/ Tick

(* Claim-daily requests of the signed-up users, interleaved at the     *)
(* await between the check and the insert.                             *)
SpecDaily == InitTransfer /\ [][NextDaily]_vars

(* C28: any two daily entries of a user are at least 24 hours apart. *)
C28_DailyEntriesApart ==
    \A i, j \in 1..Len(ledger) :
        (/\ i < j
         /\ ledger[i].type = "daily" /\ ledger[j].type = "daily"
         /\ ledger[i].receiver = ledger[j].receiver) =>
            ledger[j].at - ledger[i].at >= CooldownHours


(* ---------------------- credits during a deploy ---------------------- *)
(* One POST /deploy at a time (slot 1), carrying the catalogue's cost, *)
(* while the administrator credits users and users claim.             *)
NextCredit ==
    \/ \E u \in UserIds, b \in BotIds, ord \in Orderings(accounts) :
          ReqSelect(1, u, b, bots[b].cost, ord)
    \/ \E insertOk \in BOOLEAN : ReqInsert(1, insertOk)
    \/ ReqDebit(1)
    \/ ReqReadUsage(1)
    \/ ReqWriteUsage(1)
    \/ ReqLedger(1)
    \/ \E u \in UserIds, amount \in Amounts : AdminAddCoins(u, amount)
    \/ \E u \in UserIds : ClaimDaily(u)

SpecCredit == InitDeploy /\ [][NextCredit]_vars

(* C29: the debit of a create request takes the cost from the balance  *)
(* as it is when the debit is written, so that a credit made since the *)
(* request was authenticated is kept.                                  *)
C29_CreditSurvivesDebit ==
    [][(reqs[1].pc = "debit" /\ reqs'[1].pc = "readUsage") =>
          coins'[reqs[1].user] = coins[reqs[1].user] - reqs[1].cost]_vars


(* C30: the catch block of a provisioning task whose deployment was    *)
(* deleted by its owner changes no used_count and no balance.          *)
C30_NoWriteAfterDelete ==
    [][\A d \in DepIds :
          (CatchStep(d) /\ deps[d] = NoRow) =>
              /\ accounts' = accounts
              /\ coins' = coins]_vars

====
